---- MODULE Spec2Model ----
(***************************************************************************)
(* Model of package mf (src/mf.go): a cache-aside CRUD facade (ModelFunc)  *)
(* over a relational store (gorm) and a key-value cache (redis), with a    *)
(* secondary-index "link" cache resolved through pluggable LinkFinders.    *)
(*                                                                         *)
(* Every private function of mf.go is an operator that maps the world      *)
(* W = [store, redis] and its arguments to a result record                 *)
(*   [store, redis, err, out, trace]                                       *)
(* (the world after the call, the returned error, the caller's model       *)
(* after the call, and the sequence of collaborator calls it made).        *)
(* Every public method is one action that applies its operator atomically  *)
(* (calls do not overlap) and leaves its arguments and result in `last`;   *)
(* Return is the caller taking the result.  A second specification,        *)
(* SpecRace, lets a FirstById and an UpdateById overlap: there each store   *)
(* or cache round trip of the two methods is a step of its own.            *)
(*                                                                         *)
(* The collaborators are modelled by the contract mf.go consumes:          *)
(*   store  : a function from the ids of the existing rows to rows;        *)
(*   redis  : a function from the present keys (strings) to string values; *)
(*   a collaborator call may fail: the set F of an operation names the     *)
(*   kinds of call that fail during it, and `faults` counts the failures   *)
(*   of a run, which MaxFaults bounds;                                     *)
(*   a finder answers Find with any id or 0, or fails;                     *)
(*   a hook changes neither the store nor the cache.                       *)
(***************************************************************************)
EXTENDS Integers, Sequences, FiniteSets

\* ------------------------------------------------------------------ bounds
MaxFaults == 1      \* at most this many collaborator calls fail in a run

\* The row ids in use.  Calls on different ids share no store row and no
\* primary cache entry.
Ids == {1}

\* ------------------------------------------------------------ value domains
Names == {"", "a", "b"}      \* values of the column read by linkType "name"
Tags  == {"", "t"}           \* values of the column read by linkType "tag"

\* A model value (a row without its id): two columns and the soft-delete
\* marker deleted_at (del = TRUE: a non-zero time).
Models == [name : Names, tag : Tags, del : BOOLEAN]
ZeroModel == [name |-> "", tag |-> "", del |-> FALSE]

\* ------------------------------------------------------------------ errors
NoErr             == "nil"
ErrStore          == "store: connection failed"
ErrDuplicate      == "store: duplicate entry"
ErrRecordNotFound == "gorm: record not found"
RedisNil          == "redis: nil"
ErrRedis          == "redis: connection failed"
ErrJSON           == "json: cannot unmarshal"
ErrFind           == "finder: failed"
ErrHook           == "hook: failed"
ErrNoLinkType     == "no such linkType"
ErrGetLinkField   == "getLink: missing field"
ErrCreateLinkId   == "createLink: missing id"
ErrCreateLinkField == "createLink: missing field"
ErrDelLinkField   == "delLink: missing field"

ErrIsGormNil(err) == err = ErrRecordNotFound
ErrIsRedisNil(err) == err = RedisNil

\* ------------------------------------------------------------ configuration
RedisPrefix == "p:"
\* LinkMap: linkType -> the column its LinkFinder.FieldValue reads.
LinkMap == [name |-> "name", tag |-> "tag"]
LinkTypes == DOMAIN LinkMap
UnknownLinkType == "nope"
FieldValue(linkType, model) ==
    IF LinkMap[linkType] = "name" THEN model.name ELSE model.tag

\* ------------------------------------------------------------- conversions
Digit == <<"0", "1", "2", "3", "4", "5", "6", "7", "8", "9">>
RECURSIVE ToString(_)
\* cast.ToString(uint64): the decimal digits of n.
ToString(n) ==
    IF n < 10 THEN Digit[n + 1]
    ELSE ToString(n \div 10) \o Digit[(n % 10) + 1]

\* cast.ToUint64(string): the number a decimal string denotes, 0 for any
\* string that is not one (the empty string included).
Decimal == [n \in 0..9 |-> ToString(n)]
ToUint64(s) ==
    IF \E n \in DOMAIN Decimal : Decimal[n] = s
    THEN CHOOSE n \in DOMAIN Decimal : Decimal[n] = s
    ELSE 0

\* json.Marshal(model): every column is written, so the text determines the
\* model.
Marshal(m) ==
    "{" \o m.name \o "," \o m.tag \o "," \o (IF m.del THEN "T" ELSE "0") \o "}"
JSONOf == [m \in Models |-> Marshal(m)]
IsJSON(s) == \E m \in Models : JSONOf[m] = s
\* json.Unmarshal(text, model): every column of the text overwrites the
\* caller's model.
Unmarshal(s) == CHOOSE m \in Models : JSONOf[m] = s

\* -------------------------------------------------------------------- keys
cacheKey(id) == RedisPrefix \o "id:" \o ToString(id)
linkKey(linkType, field) == RedisPrefix \o linkType \o ":" \o field

\* --------------------------------------------------------- result records
Res(store, redis, err, out, trace) ==
    [store |-> store, redis |-> redis, err |-> err, out |-> out, trace |-> trace]
Call(name, arg) == [call |-> name, arg |-> arg]
World(r) == [store |-> r.store, redis |-> r.redis]

\* redis client commands on the key-value map.
RedisDel(redis, key) == [k \in (DOMAIN redis) \ {key} |-> redis[k]]
RedisSet(redis, key, val) ==
    [k \in (DOMAIN redis) \cup {key} |-> IF k = key THEN val ELSE redis[k]]

\* gorm Updates(model): the non-zero columns of model overwrite the row.
Updates(row, model) ==
    [name |-> IF model.name # "" THEN model.name ELSE row.name,
     tag  |-> IF model.tag # "" THEN model.tag ELSE row.tag,
     del  |-> IF model.del THEN TRUE ELSE row.del]


\* The orders in which `for linkType, linkFunc := range c.LinkMap` may visit
\* the registry (Go leaves the iteration order of a map unspecified).
Orders ==
    {o \in [1..Cardinality(LinkTypes) -> LinkTypes] :
        \A i, j \in DOMAIN o : i # j => o[i] # o[j]}

\* r2 is what ran after r1: the calls of r1 precede those of r2.
After(r1, r2) == [r2 EXCEPT !.trace = r1.trace \o @]

VARIABLES
    store,      \* MysqlCient: the table, id -> row
    redis,      \* RedisClient: key -> value, primary and link entries
    UseCache,   \* ModelFunc.UseCache
    last,       \* the last public call: its arguments and what it returned
    faults,     \* how many cache calls and how many other collaborator
                \* calls (store, finder) have been made to fail so far
    inflight    \* two calls that overlap: where each caller stands in its
                \* method, its locals, and the collaborator calls made so far

vars == <<store, redis, UseCache, last, faults, inflight>>

\* The sets of failing calls an operation may still meet, out of the kinds K.
CacheKinds == {"get", "set", "del", "lget", "lset", "ldel:name", "ldel:tag"}
FaultSets(K) ==
    {F \in SUBSET K : faults.cache + faults.other + Cardinality(F) <= MaxFaults}

\* --------------------------------------------------------- primary cache
\* Mutation of deleteCache: reports success without deleting the entry.
deleteCache_kept(W, model, id, F) ==
    LET t == <<Call("redis.Del", cacheKey(id))>> IN
    IF "del" \in F
    THEN Res(W.store, W.redis, ErrRedis, model, t)
    ELSE Res(W.store, W.redis, NoErr, model, t)

\* Mutation of deleteCache: the key is built without the prefix.
deleteCache_unprefixed(W, model, id, F) ==
    LET t == <<Call("redis.Del", cacheKey(id))>> IN
    IF "del" \in F
    THEN Res(W.store, W.redis, ErrRedis, model, t)
    ELSE Res(W.store, RedisDel(W.redis, "id:" \o ToString(id)), NoErr, model, t)

deleteCache(W, model, id, F) ==
    LET t == <<Call("redis.Del", cacheKey(id))>> IN
    IF "del" \in F
    THEN Res(W.store, W.redis, ErrRedis, model, t)
    ELSE Res(W.store, RedisDel(W.redis, cacheKey(id)), NoErr, model, t)

updateCache(W, model, id, F) ==
    LET t == <<Call("redis.Set", cacheKey(id))>> IN
    IF "set" \in F
    THEN Res(W.store, W.redis, ErrRedis, model, t)
    ELSE Res(W.store, RedisSet(W.redis, cacheKey(id), JSONOf[model]), NoErr, model, t)

\* json.Unmarshal is called on the value of an entry that is present; it
\* fails ("json" in F) when the text does not fit the caller's model.
getCache(W, model, id, F) ==
    LET t == <<Call("redis.Get", cacheKey(id))>>
        u == Append(t, Call("json.Unmarshal", cacheKey(id)))
    IN
    IF "get" \in F THEN Res(W.store, W.redis, ErrRedis, model, t)
    ELSE IF cacheKey(id) \notin DOMAIN W.redis
    THEN Res(W.store, W.redis, RedisNil, model, t)
    ELSE IF "json" \in F \/ ~IsJSON(W.redis[cacheKey(id)])
    THEN Res(W.store, W.redis, ErrJSON, model, u)
    ELSE Res(W.store, W.redis, NoErr, Unmarshal(W.redis[cacheKey(id)]), u)

\* ------------------------------------------------------------ link cache
\* Mutation of getLink: with cache disabled the link entry is not read and
\* the lookup counts as a miss.
getLink_onlyWhenCached(W, linkType, field, F) ==
    IF field = "" THEN [val |-> "", err |-> ErrGetLinkField, trace |-> <<>>]
    ELSE IF ~UseCache THEN [val |-> "", err |-> RedisNil, trace |-> <<>>]
    ELSE LET t == <<Call("redis.Get", linkKey(linkType, field))>> IN
         IF "lget" \in F THEN [val |-> "", err |-> ErrRedis, trace |-> t]
         ELSE IF linkKey(linkType, field) \notin DOMAIN W.redis
         THEN [val |-> "", err |-> RedisNil, trace |-> t]
         ELSE [val |-> W.redis[linkKey(linkType, field)], err |-> NoErr, trace |-> t]

getLink(W, linkType, field, F) ==
    IF field = "" THEN [val |-> "", err |-> ErrGetLinkField, trace |-> <<>>]
    ELSE LET t == <<Call("redis.Get", linkKey(linkType, field))>> IN
         IF "lget" \in F THEN [val |-> "", err |-> ErrRedis, trace |-> t]
         ELSE IF linkKey(linkType, field) \notin DOMAIN W.redis
         THEN [val |-> "", err |-> RedisNil, trace |-> t]
         ELSE [val |-> W.redis[linkKey(linkType, field)], err |-> NoErr, trace |-> t]

\* Mutation of createLink: the entry is written under a key without the
\* prefix, which getLink never reads.
createLink_unprefixed(W, model, id, linkType, field, F) ==
    IF id = 0 THEN Res(W.store, W.redis, ErrCreateLinkId, model, <<>>)
    ELSE IF field = "" THEN Res(W.store, W.redis, ErrCreateLinkField, model, <<>>)
    ELSE LET t == <<Call("redis.Set", linkType \o ":" \o field)>> IN
         IF "lset" \in F THEN Res(W.store, W.redis, ErrRedis, model, t)
         ELSE Res(W.store, RedisSet(W.redis, linkType \o ":" \o field, ToString(id)),
                  NoErr, model, t)

createLink(W, model, id, linkType, field, F) ==
    IF id = 0 THEN Res(W.store, W.redis, ErrCreateLinkId, model, <<>>)
    ELSE IF field = "" THEN Res(W.store, W.redis, ErrCreateLinkField, model, <<>>)
    ELSE LET t == <<Call("redis.Set", linkKey(linkType, field))>> IN
         IF "lset" \in F THEN Res(W.store, W.redis, ErrRedis, model, t)
         ELSE Res(W.store, RedisSet(W.redis, linkKey(linkType, field), ToString(id)),
                  NoErr, model, t)

delLink(W, model, linkType, field, F) ==
    IF field = "" THEN Res(W.store, W.redis, ErrDelLinkField, model, <<>>)
    ELSE LET t == <<Call("redis.Del", linkKey(linkType, field))>> IN
         IF ("ldel:" \o linkType) \in F THEN Res(W.store, W.redis, ErrRedis, model, t)
         ELSE Res(W.store, RedisDel(W.redis, linkKey(linkType, field)), NoErr, model, t)

\* Mutation of the link loop: it stops after the first linkType visited.
delLinkLoop_firstOnly(W, model, order, F) ==
    IF order = <<>> THEN Res(W.store, W.redis, NoErr, model, <<>>)
    ELSE delLink(W, model, Head(order), FieldValue(Head(order), model), F)

RECURSIVE delLinkLoop_abortOnError(_, _, _, _)
\* Mutation of the link loop: it returns at the first delLink that fails.
delLinkLoop_abortOnError(W, model, order, F) ==
    IF order = <<>> THEN Res(W.store, W.redis, NoErr, model, <<>>)
    ELSE LET d == delLink(W, model, Head(order), FieldValue(Head(order), model), F)
         IN IF d.err # NoErr THEN d
            ELSE After(d, delLinkLoop_abortOnError(World(d), model, Tail(order), F))

RECURSIVE delLinkLoop(_, _, _, _)
\* `for linkType, linkFunc := range c.LinkMap { c.delLink(...) }`: the error
\* of each delLink is dropped; the loop returns nothing.
delLinkLoop(W, model, order, F) ==
    IF order = <<>> THEN Res(W.store, W.redis, NoErr, model, <<>>)
    ELSE LET d == delLink(W, model, Head(order), FieldValue(Head(order), model), F)
         IN After(d, delLinkLoop(World(d), model, Tail(order), F))

\* ------------------------------------------------------------ store calls
Create(W, model, id, F) ==
    LET t == <<Call("db.Create", ToString(id))>> IN
    IF "store" \in F THEN Res(W.store, W.redis, ErrStore, model, t)
    ELSE IF id \in DOMAIN W.store THEN Res(W.store, W.redis, ErrDuplicate, model, t)
    ELSE Res([i \in (DOMAIN W.store) \cup {id} |-> IF i = id THEN model ELSE W.store[i]],
             W.redis, NoErr, model, t)

\* An update or delete that matches no row is no error for gorm.
updateByIdM(W, model, id, F) ==
    LET t == <<Call("db.Updates", ToString(id))>> IN
    IF "store" \in F THEN Res(W.store, W.redis, ErrStore, model, t)
    ELSE IF id \notin DOMAIN W.store THEN Res(W.store, W.redis, NoErr, model, t)
    ELSE Res([W.store EXCEPT ![id] = Updates(@, model)], W.redis, NoErr, model, t)

\* gorm Save under Where("id = ?"): the row with this id is overwritten by
\* every column of model.
saveByIdM(W, model, id, F) ==
    LET t == <<Call("db.Save", ToString(id))>> IN
    IF "store" \in F THEN Res(W.store, W.redis, ErrStore, model, t)
    ELSE IF id \notin DOMAIN W.store THEN Res(W.store, W.redis, NoErr, model, t)
    ELSE Res([W.store EXCEPT ![id] = model], W.redis, NoErr, model, t)

firstByIdM(W, model, id, F) ==
    LET t == <<Call("db.First", ToString(id))>> IN
    IF "store" \in F THEN Res(W.store, W.redis, ErrStore, model, t)
    ELSE IF id \notin DOMAIN W.store
    THEN Res(W.store, W.redis, ErrRecordNotFound, model, t)
    ELSE Res(W.store, W.redis, NoErr, W.store[id], t)

firstByIdFilterSoftDelM(W, model, id, F) ==
    LET t == <<Call("db.First", ToString(id))>> IN
    IF "store" \in F THEN Res(W.store, W.redis, ErrStore, model, t)
    ELSE IF id \notin DOMAIN W.store \/ W.store[id].del
    THEN Res(W.store, W.redis, ErrRecordNotFound, model, t)
    ELSE Res(W.store, W.redis, NoErr, W.store[id], t)

deleteByIdM(W, model, id, F) ==
    LET t == <<Call("db.Delete", ToString(id))>> IN
    IF "store" \in F THEN Res(W.store, W.redis, ErrStore, model, t)
    ELSE Res([i \in (DOMAIN W.store) \ {id} |-> W.store[i]], W.redis, NoErr, model, t)

softDeleteByIdM(W, model, id, F) ==
    LET t == <<Call("db.Updates", ToString(id))>> IN
    IF "store" \in F THEN Res(W.store, W.redis, ErrStore, model, t)
    ELSE IF id \notin DOMAIN W.store THEN Res(W.store, W.redis, NoErr, model, t)
    ELSE Res([W.store EXCEPT ![id].del = TRUE], W.redis, NoErr, model, t)

\* ------------------------------------------------- cache-enabled variants
updateByIdR(W, model, id, order, F) ==
    LET u == updateByIdM(W, model, id, F) IN
    IF u.err # NoErr THEN u
    ELSE LET d == After(u, deleteCache(World(u), model, id, F)) IN
         IF d.err # NoErr THEN d
         ELSE After(d, delLinkLoop(World(d), model, order, F))

\* Mutation of saveByIdR: write-through, the saved model is set as the
\* primary entry instead of the entry being deleted.
saveByIdR_writeThrough(W, model, id, order, F) ==
    LET u == saveByIdM(W, model, id, F) IN
    IF u.err # NoErr THEN u
    ELSE LET d == After(u, updateCache(World(u), model, id, F)) IN
         IF d.err # NoErr THEN d
         ELSE After(d, delLinkLoop(World(d), model, order, F))

saveByIdR(W, model, id, order, F) ==
    LET u == saveByIdM(W, model, id, F) IN
    IF u.err # NoErr THEN u
    ELSE LET d == After(u, deleteCache(World(u), model, id, F)) IN
         IF d.err # NoErr THEN d
         ELSE After(d, delLinkLoop(World(d), model, order, F))

\* Mutation of deleteByIdR: the primary entry is deleted before the row.
deleteByIdR_cacheFirst(W, model, id, order, F) ==
    LET d == deleteCache(W, model, id, F) IN
    IF d.err # NoErr THEN d
    ELSE LET u == After(d, deleteByIdM(World(d), model, id, F)) IN
         IF u.err # NoErr THEN u
         ELSE After(u, delLinkLoop(World(u), model, order, F))

deleteByIdR(W, model, id, order, F) ==
    LET u == deleteByIdM(W, model, id, F) IN
    IF u.err # NoErr THEN u
    ELSE LET d == After(u, deleteCache(World(u), model, id, F)) IN
         IF d.err # NoErr THEN d
         ELSE After(d, delLinkLoop(World(d), model, order, F))

softDeleteByIdR(W, model, id, order, F) ==
    LET u == softDeleteByIdM(W, model, id, F) IN
    IF u.err # NoErr THEN u
    ELSE LET d == After(u, deleteCache(World(u), model, id, F)) IN
         IF d.err # NoErr THEN d
         ELSE After(d, delLinkLoop(World(d), model, order, F))

\* Mutation of firstByIdR: the row read on a miss is not written to the cache.
firstByIdR_unpopulated(W, model, id, F) ==
    LET g == getCache(W, model, id, F) IN
    IF g.err # NoErr /\ ~ErrIsRedisNil(g.err) THEN g
    ELSE IF ErrIsRedisNil(g.err)
    THEN After(g, firstByIdM(W, model, id, F))
    ELSE g

firstByIdR(W, model, id, F) ==
    LET g == getCache(W, model, id, F) IN
    IF g.err # NoErr /\ ~ErrIsRedisNil(g.err) THEN g
    ELSE IF ErrIsRedisNil(g.err)
    THEN LET q == After(g, firstByIdM(W, model, id, F)) IN
         IF q.err # NoErr THEN q
         ELSE After(q, updateCache(World(q), q.out, id, F))
    ELSE g

\* Mutation of firstByIdFilterSoftDelR: every error of getCache counts as a
\* miss.
firstByIdFilterSoftDelR_anyErrorIsMiss(W, model, id, F) ==
    LET g == getCache(W, model, id, F) IN
    IF g.err # NoErr
    THEN LET q == After(g, firstByIdFilterSoftDelM(W, model, id, F)) IN
         IF q.err # NoErr THEN q
         ELSE After(q, updateCache(World(q), q.out, id, F))
    ELSE g

firstByIdFilterSoftDelR(W, model, id, F) ==
    LET g == getCache(W, model, id, F) IN
    IF g.err # NoErr /\ ~ErrIsRedisNil(g.err) THEN g
    ELSE IF ErrIsRedisNil(g.err)
    THEN LET q == After(g, firstByIdFilterSoftDelM(W, model, id, F)) IN
         IF q.err # NoErr THEN q
         ELSE After(q, updateCache(World(q), q.out, id, F))
    ELSE g

\* ------------------------------------------------------------------- hook
\* hk tells what reflection finds on the model: "none" (no such method),
\* "ok" (the method returns nil) or "fail" (it returns an error).  r is the
\* step that ran before the hook; its error is kept as `inner`.
Hooks == {"none", "ok", "fail"}
\* Mutation of hook: a failed step is returned at once and the hook is not
\* called.
hook_afterSuccessOnly(hookMethod, r, hk) ==
    [store |-> r.store, redis |-> r.redis, out |-> r.out, inner |-> r.err,
     err   |-> IF r.err # NoErr THEN r.err
               ELSE IF hk = "fail" THEN ErrHook ELSE NoErr,
     trace |-> IF hk = "none" \/ r.err # NoErr THEN r.trace
               ELSE Append(r.trace, Call("hook", hookMethod))]

hook(hookMethod, r, hk) ==
    [store |-> r.store, redis |-> r.redis, out |-> r.out, inner |-> r.err,
     err   |-> IF hk = "fail" THEN ErrHook ELSE NoErr,
     trace |-> IF hk = "none" THEN r.trace
               ELSE Append(r.trace, Call("hook", hookMethod))]

\* --------------------------------------------------------- public methods
UpdateById(W, model, id, order, hk, F) ==
    hook("MfAfterUpdateById",
         IF UseCache THEN updateByIdR(W, model, id, order, F)
         ELSE updateByIdM(W, model, id, F), hk)

SaveById(W, model, id, order, hk, F) ==
    hook("MfAfterSaveById",
         IF UseCache THEN saveByIdR(W, model, id, order, F)
         ELSE saveByIdM(W, model, id, F), hk)

\* Mutation of DeleteById: the cache-enabled variant runs whatever UseCache
\* says.
DeleteById_alwaysCached(W, model, id, order, hk, F) ==
    hook("MfAfterDeleteById", deleteByIdR(W, model, id, order, F), hk)

DeleteById(W, model, id, order, hk, F) ==
    hook("MfAfterDeleteById",
         IF UseCache THEN deleteByIdR(W, model, id, order, F)
         ELSE deleteByIdM(W, model, id, F), hk)

SoftDeleteById(W, model, id, order, hk, F) ==
    hook("MfAfterSoftDeleteById",
         IF UseCache THEN softDeleteByIdR(W, model, id, order, F)
         ELSE softDeleteByIdM(W, model, id, F), hk)

FirstById(W, model, id, F) ==
    IF UseCache THEN firstByIdR(W, model, id, F) ELSE firstByIdM(W, model, id, F)

FirstByIdSD(W, model, id, F) ==
    IF UseCache THEN firstByIdFilterSoftDelR(W, model, id, F)
    ELSE firstByIdFilterSoftDelM(W, model, id, F)

\* Mutation of FirstByLink: the `idInt > 0` test is missing, so the link is
\* created for whatever id the finder returns.
FirstByLink_unguarded(W, linkType, model, field, find, F) ==
    IF linkType \notin DOMAIN LinkMap
    THEN Res(W.store, W.redis, ErrNoLinkType, model, <<>>)
    ELSE
    LET g == getLink(W, linkType, field, F) IN
    IF ToUint64(g.val) = 0
    THEN LET ft == Append(g.trace, Call("Find", linkKey(linkType, field))) IN
         IF "find" \in F THEN Res(W.store, W.redis, ErrFind, model, ft)
         ELSE LET c == [createLink(W, model, find, linkType, field, F)
                           EXCEPT !.trace = ft \o @]
                  id == ToString(find)
              IN  IF c.err # NoErr THEN c
                  ELSE IF ToUint64(id) > 0
                  THEN After(c, FirstById(World(c), model, ToUint64(id), F))
                  ELSE c
    ELSE After(g, FirstById(W, model, ToUint64(g.val), F))

\* find is what finder.Find returns as id when it does not fail.
FirstByLink(W, linkType, model, field, find, F) ==
    IF linkType \notin DOMAIN LinkMap
    THEN Res(W.store, W.redis, ErrNoLinkType, model, <<>>)
    ELSE
    LET g == getLink(W, linkType, field, F) IN
    IF ToUint64(g.val) = 0
    THEN LET ft == Append(g.trace, Call("Find", linkKey(linkType, field))) IN
         IF "find" \in F THEN Res(W.store, W.redis, ErrFind, model, ft)
         ELSE IF find > 0
         THEN LET c == [createLink(W, model, find, linkType, field, F)
                           EXCEPT !.trace = ft \o @]
                  id == ToString(find)
              IN  IF c.err # NoErr THEN c
                  ELSE IF ToUint64(id) > 0
                  THEN After(c, FirstById(World(c), model, ToUint64(id), F))
                  ELSE c
         ELSE Res(W.store, W.redis, NoErr, model, ft)
    ELSE After(g, FirstById(W, model, ToUint64(g.val), F))

\* Mutation of FirstByLinkSD: the link entry is read before the registry is
\* consulted.
FirstByLinkSD_readsFirst(W, linkType, model, field, find, F) ==
    LET g == getLink(W, linkType, field, F) IN
    IF linkType \notin DOMAIN LinkMap
    THEN Res(W.store, W.redis, ErrNoLinkType, model, g.trace)
    ELSE
    IF ToUint64(g.val) = 0
    THEN LET ft == Append(g.trace, Call("Find", linkKey(linkType, field))) IN
         IF "find" \in F THEN Res(W.store, W.redis, ErrFind, model, ft)
         ELSE IF find > 0
         THEN LET c == [createLink(W, model, find, linkType, field, F)
                           EXCEPT !.trace = ft \o @]
                  id == ToString(find)
              IN  IF c.err # NoErr THEN c
                  ELSE IF ToUint64(id) > 0
                  THEN After(c, FirstById(World(c), model, ToUint64(id), F))
                  ELSE c
         ELSE Res(W.store, W.redis, NoErr, model, ft)
    ELSE After(g, FirstById(W, model, ToUint64(g.val), F))

\* Mutation of FirstByLinkSD: the record is fetched through the
\* soft-delete-aware FirstByIdSD.
FirstByLinkSD_filtered(W, linkType, model, field, find, F) ==
    IF linkType \notin DOMAIN LinkMap
    THEN Res(W.store, W.redis, ErrNoLinkType, model, <<>>)
    ELSE
    LET g == getLink(W, linkType, field, F) IN
    IF ToUint64(g.val) = 0
    THEN LET ft == Append(g.trace, Call("Find", linkKey(linkType, field))) IN
         IF "find" \in F THEN Res(W.store, W.redis, ErrFind, model, ft)
         ELSE IF find > 0
         THEN LET c == [createLink(W, model, find, linkType, field, F)
                           EXCEPT !.trace = ft \o @]
                  id == ToString(find)
              IN  IF c.err # NoErr THEN c
                  ELSE IF ToUint64(id) > 0
                  THEN After(c, FirstByIdSD(World(c), model, ToUint64(id), F))
                  ELSE c
         ELSE Res(W.store, W.redis, NoErr, model, ft)
    ELSE After(g, FirstByIdSD(W, model, ToUint64(g.val), F))

FirstByLinkSD(W, linkType, model, field, find, F) ==
    IF linkType \notin DOMAIN LinkMap
    THEN Res(W.store, W.redis, ErrNoLinkType, model, <<>>)
    ELSE
    LET g == getLink(W, linkType, field, F) IN
    IF ToUint64(g.val) = 0
    THEN LET ft == Append(g.trace, Call("Find", linkKey(linkType, field))) IN
         IF "find" \in F THEN Res(W.store, W.redis, ErrFind, model, ft)
         ELSE IF find > 0
         THEN LET c == [createLink(W, model, find, linkType, field, F)
                           EXCEPT !.trace = ft \o @]
                  id == ToString(find)
              IN  IF c.err # NoErr THEN c
                  ELSE IF ToUint64(id) > 0
                  THEN After(c, FirstById(World(c), model, ToUint64(id), F))
                  ELSE c
         ELSE Res(W.store, W.redis, NoErr, model, ft)
    ELSE After(g, FirstById(W, model, ToUint64(g.val), F))

\* ----------------------------------------------------------------- inputs
\* What a caller passes to a write: a model whose deleted_at is unset, with
\* both linked columns set, one of them, or none.
WriteModels ==
    {[name |-> "a", tag |-> "t", del |-> FALSE],
     [name |-> "b", tag |-> "", del |-> FALSE],
     [name |-> "", tag |-> "t", del |-> FALSE],
     ZeroModel}
\* The iteration orders of the link loop that differ in the calls they make
\* for this model: delLink calls the cache only for a non-empty field value.
OrdersFor(model) ==
    IF UseCache /\ \A linkType \in LinkTypes : FieldValue(linkType, model) # ""
    THEN Orders
    ELSE {CHOOSE o \in Orders : TRUE}
\* The caller's model before a read.
Probes == {ZeroModel, [name |-> "b", tag |-> "t", del |-> TRUE]}
\* The caller's model before a lookup by link.
LinkProbes == {[name |-> "b", tag |-> "t", del |-> TRUE]}
\* The field values a lookup by linkType is made with: values of the column
\* the linkType reads.
ValuesOf(linkType) == IF LinkMap[linkType] = "name" THEN Names ELSE Tags
Fields == Names \cup Tags
FindIds == {0} \cup Ids
WriteFaults == IF UseCache THEN {"store", "del", "ldel:name", "ldel:tag"} ELSE {"store"}
ReadFaults == IF UseCache THEN {"get", "json", "store", "set"} ELSE {"store"}
LinkFaults == {"lget", "find", "lset"} \cup ReadFaults

\* What FirstByLink and FirstByLinkSD are called with.  A call with an
\* unregistered linkType returns before it uses its other arguments.
LinkInputs ==
    {in \in [linkType : LinkTypes, field : Fields, find : FindIds] :
        in.field \in ValuesOf(in.linkType)}
        \cup [linkType : {UnknownLinkType}, field : Fields, find : {0}]

\* The kind of failure that can hit a call of the trace.
PrimaryKeys == {cacheKey(id) : id \in Ids}
LinkTypeOfKey ==
    [k \in {linkKey(t, f) : t \in LinkTypes, f \in Fields} |->
        CHOOSE t \in LinkTypes : \E f \in Fields : linkKey(t, f) = k]
KindOf(c) ==
    IF c.call = "Find" THEN "find"
    ELSE IF c.call = "hook" THEN "hook"
    ELSE IF c.call = "json.Unmarshal" THEN "json"
    ELSE IF c.call = "redis.Get"
    THEN (IF c.arg \in PrimaryKeys THEN "get" ELSE "lget")
    ELSE IF c.call = "redis.Set"
    THEN (IF c.arg \in PrimaryKeys THEN "set" ELSE "lset")
    ELSE IF c.call = "redis.Del"
    THEN (IF c.arg \in PrimaryKeys THEN "del" ELSE "ldel:" \o LinkTypeOfKey[c.arg])
    ELSE "store"
\* F names calls the operation made: a set that names a call the operation
\* never reached is the same input as the set without it.
Met(F, trace) == F \subseteq {KindOf(trace[i]) : i \in DOMAIN trace}

Here == [store |-> store, redis |-> redis]

\* The record of a call: what was asked and what came back.
Last(op, id, linkType, field, in, hk, F, find, r, inner) ==
    [op |-> op, id |-> id, linkType |-> linkType, field |-> field, in |-> in,
     hk |-> hk, F |-> F, find |-> find, err |-> r.err, inner |-> inner,
     out |-> r.out, trace |-> r.trace]

Idle ==
    [op |-> "idle", id |-> 0, linkType |-> "", field |-> "", in |-> ZeroModel,
     hk |-> "none", F |-> {}, find |-> 0, err |-> NoErr, inner |-> NoErr,
     out |-> ZeroModel, trace |-> <<>>]

\* A call runs to completion (calls do not overlap): the world moves to the
\* state it leaves, and `last` holds its result until the caller takes it.
Commit(r, l) ==
    /\ Met(l.F, l.trace)
    /\ store' = r.store
    /\ redis' = r.redis
    /\ last' = l
    /\ faults' = [cache |-> faults.cache + Cardinality(l.F \cap CacheKinds),
                  other |-> faults.other + Cardinality(l.F \ CacheKinds)]
    /\ UNCHANGED <<UseCache, inflight>>

\* No overlapping calls.
NoCalls ==
    [reader |-> [pc |-> "none", id |-> 0, model |-> ZeroModel, err |-> NoErr],
     writer |-> [pc |-> "none", id |-> 0, model |-> ZeroModel, order |-> <<>>,
                 hk |-> "none", inner |-> NoErr, err |-> NoErr],
     log |-> <<>>]

\* ---------------------------------------------------------------- actions
Init ==
    /\ store = [i \in {} |-> ZeroModel]
    /\ redis = [k \in {} |-> ""]
    /\ UseCache \in BOOLEAN
    /\ last = Idle
    /\ faults = [cache |-> 0, other |-> 0]
    /\ inflight = NoCalls

CallCreate ==
    /\ last.op = "idle"
    /\ \E id \in Ids, model \in WriteModels, F \in FaultSets({"store"}) :
        \E r \in {Create(Here, model, id, F)} :
        Commit(r, Last("Create", id, "", "", model, "none", F, 0, r, r.err))

CallUpdateById ==
    /\ last.op = "idle"
    /\ \E id \in Ids, model \in WriteModels, hk \in Hooks,
       F \in FaultSets(WriteFaults) :
        \E order \in OrdersFor(model) :
        \E r \in {UpdateById(Here, model, id, order, hk, F)} :
        Commit(r, Last("UpdateById", id, "", "", model, hk, F, 0, r, r.inner))

CallSaveById ==
    /\ last.op = "idle"
    /\ \E id \in Ids, model \in WriteModels, hk \in Hooks,
       F \in FaultSets(WriteFaults) :
        \E order \in OrdersFor(model) :
        \E r \in {SaveById(Here, model, id, order, hk, F)} :
        Commit(r, Last("SaveById", id, "", "", model, hk, F, 0, r, r.inner))

CallDeleteById ==
    /\ last.op = "idle"
    /\ \E id \in Ids, model \in WriteModels, hk \in Hooks,
       F \in FaultSets(WriteFaults) :
        \E order \in OrdersFor(model) :
        \E r \in {DeleteById(Here, model, id, order, hk, F)} :
        Commit(r, Last("DeleteById", id, "", "", model, hk, F, 0, r, r.inner))

CallSoftDeleteById ==
    /\ last.op = "idle"
    /\ \E id \in Ids, model \in WriteModels, hk \in Hooks,
       F \in FaultSets(WriteFaults) :
        \E order \in OrdersFor(model) :
        \E r \in {SoftDeleteById(Here, model, id, order, hk, F)} :
        Commit(r, Last("SoftDeleteById", id, "", "", model, hk, F, 0, r, r.inner))

CallFirstById ==
    /\ last.op = "idle"
    /\ \E id \in Ids, model \in Probes, F \in FaultSets(ReadFaults) :
        \E r \in {FirstById(Here, model, id, F)} :
        Commit(r, Last("FirstById", id, "", "", model, "none", F, 0, r, r.err))

CallFirstByIdSD ==
    /\ last.op = "idle"
    /\ \E id \in Ids, model \in Probes, F \in FaultSets(ReadFaults) :
        \E r \in {FirstByIdSD(Here, model, id, F)} :
        Commit(r, Last("FirstByIdSD", id, "", "", model, "none", F, 0, r, r.err))

CallFirstByLink ==
    /\ last.op = "idle"
    /\ \E in \in LinkInputs, model \in LinkProbes, F \in FaultSets(LinkFaults) :
        \E r \in {FirstByLink(Here, in.linkType, model, in.field, in.find, F)} :
        Commit(r, Last("FirstByLink", 0, in.linkType, in.field, model, "none", F,
                       in.find, r, r.err))

CallFirstByLinkSD ==
    /\ last.op = "idle"
    /\ \E in \in LinkInputs, model \in LinkProbes, F \in FaultSets(LinkFaults) :
        \E r \in {FirstByLinkSD(Here, in.linkType, model, in.field, in.find, F)} :
        Commit(r, Last("FirstByLinkSD", 0, in.linkType, in.field, model, "none", F,
                       in.find, r, r.err))

\* The caller takes the result of the call.
Return ==
    /\ last.op # "idle"
    /\ last' = Idle
    /\ UNCHANGED <<store, redis, UseCache, faults, inflight>>

\* The cache service drops an entry whose TTL has run out.
Expire ==
    /\ last.op = "idle"
    /\ \E key \in DOMAIN redis : redis' = RedisDel(redis, key)
    /\ UNCHANGED <<store, UseCache, last, faults, inflight>>

Next ==
    \/ CallCreate
    \/ CallUpdateById
    \/ CallSaveById
    \/ CallDeleteById
    \/ CallSoftDeleteById
    \/ CallFirstById
    \/ CallFirstByIdSD
    \/ CallFirstByLink
    \/ CallFirstByLinkSD
    \/ Return
    \/ Expire

Spec == Init /\ [][Next]_vars

\* ------------------------------------------------------ overlapping calls
\* Two callers on one ModelFunc with the cache enabled: a reader in
\* FirstById and a writer in UpdateById, both on the same id.  mf.go takes no
\* lock, so the calls interleave at their collaborator calls; each store or
\* cache round trip is one step.  No call fails here.
Tagged(who, trace) == [i \in DOMAIN trace |-> [who |-> who, call |-> trace[i]]]

InitRace ==
    /\ UseCache = TRUE
    /\ last = Idle
    /\ faults = [cache |-> 0, other |-> 0]
    /\ \E id \in Ids, row \in WriteModels :
        /\ store = [i \in {id} |-> row]
        /\ redis \in {[k \in {} |-> ""], [k \in {cacheKey(id)} |-> JSONOf[row]]}
        /\ \E probe \in Probes, model \in WriteModels, hk \in Hooks, order \in Orders :
            inflight =
              [reader |-> [pc |-> "getCache", id |-> id, model |-> probe, err |-> NoErr],
               writer |-> [pc |-> "updateByIdM", id |-> id, model |-> model,
                           order |-> order, hk |-> hk, inner |-> NoErr, err |-> NoErr],
               log |-> <<>>]

\* firstByIdR, `c.getCache(ctx, model, id)` and the test of its error.
ReaderGetCache ==
    /\ inflight.reader.pc = "getCache"
    /\ \E g \in {getCache(Here, inflight.reader.model, inflight.reader.id, {})} :
        /\ inflight' =
              [inflight EXCEPT
                 !.reader.model = g.out,
                 !.reader.err = IF ErrIsRedisNil(g.err) THEN NoErr ELSE g.err,
                 !.reader.pc = IF ErrIsRedisNil(g.err) THEN "firstByIdM" ELSE "done",
                 !.log = @ \o Tagged("reader", g.trace)]
        /\ UNCHANGED <<store, redis, UseCache, last, faults>>

\* firstByIdR, `c.firstByIdM(ctx, model, id)` after a miss.
ReaderFirstByIdM ==
    /\ inflight.reader.pc = "firstByIdM"
    /\ \E q \in {firstByIdM(Here, inflight.reader.model, inflight.reader.id, {})} :
        /\ inflight' =
              [inflight EXCEPT
                 !.reader.model = q.out,
                 !.reader.err = q.err,
                 !.reader.pc = IF q.err # NoErr THEN "done" ELSE "updateCache",
                 !.log = @ \o Tagged("reader", q.trace)]
        /\ UNCHANGED <<store, redis, UseCache, last, faults>>

\* firstByIdR, `c.updateCache(ctx, model, id)` with the model read before.
ReaderUpdateCache ==
    /\ inflight.reader.pc = "updateCache"
    /\ \E r \in {updateCache(Here, inflight.reader.model, inflight.reader.id, {})} :
        /\ redis' = r.redis
        /\ inflight' =
              [inflight EXCEPT
                 !.reader.err = r.err,
                 !.reader.pc = "done",
                 !.log = @ \o Tagged("reader", r.trace)]
        /\ UNCHANGED <<store, UseCache, last, faults>>

\* updateByIdR, `c.updateByIdM(ctx, model, id)`.
WriterUpdateByIdM ==
    /\ inflight.writer.pc = "updateByIdM"
    /\ \E u \in {updateByIdM(Here, inflight.writer.model, inflight.writer.id, {})} :
        /\ store' = u.store
        /\ inflight' =
              [inflight EXCEPT
                 !.writer.inner = u.err,
                 !.writer.pc = IF u.err # NoErr THEN "hook" ELSE "deleteCache",
                 !.log = @ \o Tagged("writer", u.trace)]
        /\ UNCHANGED <<redis, UseCache, last, faults>>

\* updateByIdR, `c.deleteCache(ctx, id)`.
WriterDeleteCache ==
    /\ inflight.writer.pc = "deleteCache"
    /\ \E d \in {deleteCache(Here, inflight.writer.model, inflight.writer.id, {})} :
        /\ redis' = d.redis
        /\ inflight' =
              [inflight EXCEPT
                 !.writer.inner = d.err,
                 !.writer.pc = IF d.err # NoErr THEN "hook" ELSE "delLink",
                 !.log = @ \o Tagged("writer", d.trace)]
        /\ UNCHANGED <<store, UseCache, last, faults>>

\* updateByIdR, one iteration of the link loop, or its end.
WriterDelLink ==
    /\ inflight.writer.pc = "delLink"
    /\ IF inflight.writer.order = <<>>
       THEN /\ inflight' = [inflight EXCEPT !.writer.pc = "hook"]
            /\ UNCHANGED redis
       ELSE LET linkType == Head(inflight.writer.order) IN
            \E d \in {delLink(Here, inflight.writer.model, linkType,
                               FieldValue(linkType, inflight.writer.model), {})} :
            /\ redis' = d.redis
            /\ inflight' =
                  [inflight EXCEPT
                     !.writer.order = Tail(@),
                     !.log = @ \o Tagged("writer", d.trace)]
    /\ UNCHANGED <<store, UseCache, last, faults>>

\* UpdateById, `return c.hook("MfAfterUpdateById", ctx, model)`.
WriterHook ==
    /\ inflight.writer.pc = "hook"
    /\ \E h \in {hook("MfAfterUpdateById",
                        Res(store, redis, inflight.writer.inner,
                            inflight.writer.model, <<>>),
                        inflight.writer.hk)} :
        inflight' =
          [inflight EXCEPT
             !.writer.err = h.err,
             !.writer.pc = "done",
             !.log = @ \o Tagged("writer", h.trace)]
    /\ UNCHANGED <<store, redis, UseCache, last, faults>>

NextRace ==
    \/ ReaderGetCache
    \/ ReaderFirstByIdM
    \/ ReaderUpdateCache
    \/ WriterUpdateByIdM
    \/ WriterDeleteCache
    \/ WriterDelLink
    \/ WriterHook

SpecRace == InitRace /\ [][NextRace]_vars

\* ------------------------------------------------------------- properties
WriteOps == {"UpdateById", "SaveById", "DeleteById", "SoftDeleteById"}
LinkOps == {"FirstByLink", "FirstByLinkSD"}
HookOf(op) == "MfAfter" \o op
Count(trace, c) == Cardinality({i \in DOMAIN trace : trace[i] = c})
CallNames(trace) == {trace[i].call : i \in DOMAIN trace}
\* Every set of at most one failing call among the kinds K.
AnyFault(K) == {F \in SUBSET K : Cardinality(F) <= 1}
Cached(id) == cacheKey(id) \in DOMAIN redis

\* C1: with cache enabled, a write (UpdateById, SaveById, DeleteById,
\* SoftDeleteById) that returns without error for id I leaves no primary
\* cache entry for I behind.
C1_SuccessfulWriteLeavesNoEntry ==
    (UseCache /\ last.op \in WriteOps /\ last.err = NoErr) => ~Cached(last.id)

\* C2: when no cache call fails, a primary cache entry that is present for
\* id I decodes to the row the store holds for I; and right after a write
\* step of UpdateById or SaveById that succeeded on an existing row, a
\* FirstById misses the cache, queries the store, returns the written
\* values and stores them in the entry.
C2_CacheAgreesWithStore ==
    (UseCache /\ faults.cache = 0) =>
      /\ \A id \in Ids :
            Cached(id) =>
              /\ id \in DOMAIN store
              /\ IsJSON(redis[cacheKey(id)])
              /\ Unmarshal(redis[cacheKey(id)]) = store[id]
      /\ (last.op \in {"UpdateById", "SaveById"} /\ last.inner = NoErr
            /\ last.id \in DOMAIN store) =>
            LET r == FirstById(Here, ZeroModel, last.id, {}) IN
              /\ r.trace = <<Call("redis.Get", cacheKey(last.id)),
                             Call("db.First", ToString(last.id)),
                             Call("redis.Set", cacheKey(last.id))>>
              /\ r.err = NoErr
              /\ r.out = store[last.id]
              /\ last.op = "SaveById" => r.out = last.in
              /\ last.in.name # "" => r.out.name = last.in.name
              /\ last.in.tag # "" => r.out.tag = last.in.tag
              /\ Cached(last.id) = FALSE
              /\ r.redis[cacheKey(last.id)] = Marshal(r.out)

\* A successful UpdateById has renamed an existing row from "a" to "b" and
\* invalidated its entry.
C2_Witness ==
    /\ UseCache /\ faults.cache = 0
    /\ last.op = "UpdateById" /\ last.inner = NoErr /\ last.err = NoErr
    /\ last.id \in DOMAIN store
    /\ last.in.name = "b" /\ store[last.id].name = "b"
    /\ Call("redis.Del", cacheKey(last.id)) \in {last.trace[i] : i \in DOMAIN last.trace}
    /\ ~Cached(last.id)

\* C3: with cache enabled, a FirstById that misses the cache and finds the
\* row makes exactly one store query and then writes the row to the primary
\* entry; once it has returned, another FirstById for the same id makes no
\* store query and, unless its cache read fails, returns the same value.
C3_SecondReadServedFromCache ==
    (/\ UseCache /\ last.op = "FirstById"
     /\ Len(last.trace) >= 2 /\ last.trace[2].call = "db.First"
     /\ "store" \notin last.F /\ last.id \in DOMAIN store) =>
        /\ last.trace = <<Call("redis.Get", cacheKey(last.id)),
                          Call("db.First", ToString(last.id)),
                          Call("redis.Set", cacheKey(last.id))>>
        /\ last.out = store[last.id]
        /\ last.err = NoErr =>
              /\ Cached(last.id)
              /\ redis[cacheKey(last.id)] = Marshal(last.out)
              /\ \A model \in Probes, F \in AnyFault(ReadFaults) :
                    LET r == FirstById(Here, model, last.id, F) IN
                      /\ "db.First" \notin CallNames(r.trace)
                      /\ r.err = NoErr => r.out = last.out
                      /\ F = {} => r.err = NoErr

C3_Witness ==
    /\ UseCache /\ last.op = "FirstById" /\ last.err = NoErr
    /\ Len(last.trace) = 3
    /\ last.out.name = "a" /\ last.in # last.out

\* C4: a FirstByIdSD that returns without error never hands back a record
\* whose soft-delete marker is set.
C4_FirstByIdSDExcludesSoftDeleted ==
    (last.op = "FirstByIdSD" /\ last.err = NoErr) => ~last.out.del

\* C5: when the model exposes no hook, a write returns the error of its
\* store/cache step unchanged.
C5_StepErrorReturned ==
    (last.op \in WriteOps /\ last.hk = "none") => last.err = last.inner

\* C6: when the model exposes the hook of a write, the hook is called
\* exactly once, as the last call of the operation, in both cache modes and
\* whether or not the store/cache step failed; an error it returns is what
\* the operation returns.  Without the hook method no hook call is made.
C6_HookRunsOnceAndDecides ==
    last.op \in WriteOps =>
        /\ last.hk # "none" =>
              /\ Count(last.trace, Call("hook", HookOf(last.op))) = 1
              /\ "hook" \notin
                    {last.trace[i].call : i \in 1..(Len(last.trace) - 1)}
              /\ last.trace[Len(last.trace)] = Call("hook", HookOf(last.op))
        /\ last.hk = "fail" => last.err = ErrHook
        /\ last.hk = "ok" => last.err = NoErr
        /\ last.hk = "none" => "hook" \notin CallNames(last.trace)

C6_Witness ==
    /\ last.op = "UpdateById" /\ last.hk = "fail"
    /\ last.inner = ErrStore /\ last.err = ErrHook
    /\ Len(last.trace) = 2

C6_WitnessNoCache ==
    /\ ~UseCache /\ last.op = "SoftDeleteById" /\ last.hk = "fail"
    /\ last.inner = NoErr /\ last.err = ErrHook

\* C7: FirstByLink and FirstByLinkSD with a linkType that is not registered
\* return an error, call neither the store, the cache nor a finder, and
\* leave the model, the store and the cache as they were.
C7_UnknownLinkTypeRejected ==
    /\ (last.op \in LinkOps /\ last.linkType \notin LinkTypes) =>
          /\ last.err = ErrNoLinkType
          /\ last.trace = <<>>
          /\ last.out = last.in
    /\ last.op = "idle" =>
          \A field \in Fields, model \in LinkProbes, find \in FindIds,
             F \in AnyFault(LinkFaults) :
              LET a == FirstByLink(Here, UnknownLinkType, model, field, find, F)
                  b == FirstByLinkSD(Here, UnknownLinkType, model, field, find, F)
              IN  /\ a.err # NoErr /\ a.trace = <<>> /\ a.out = model
                  /\ a.store = store /\ a.redis = redis
                  /\ b.err # NoErr /\ b.trace = <<>> /\ b.out = model
                  /\ b.store = store /\ b.redis = redis

C7_Witness ==
    /\ last.op = "FirstByLink" /\ last.linkType = UnknownLinkType
    /\ last.field = "a" /\ last.err = ErrNoLinkType
    /\ DOMAIN store # {} /\ linkKey("name", "a") \in DOMAIN redis

\* The call FirstById(id) starts with: the primary cache read when the cache
\* is enabled, the store query when it is not.
FirstCallOfFirstById(id) ==
    IF UseCache THEN Call("redis.Get", cacheKey(id))
    ELSE Call("db.First", ToString(id))

\* C8: a FirstByLink with a registered linkType and a non-empty field that
\* finds no link entry calls Find once; when Find returns id > 0 it writes
\* the link entry (linkType, field) -> id and then fetches through
\* FirstById(id); once the entry is written, another FirstByLink with the
\* same linkType and field whose link read does not fail takes the id from
\* the entry, fetches through FirstById(id) and calls no finder.
C8_LinkCreatedThenReused ==
    (/\ last.op = "FirstByLink" /\ last.linkType \in LinkTypes /\ last.field # ""
     /\ "lget" \notin last.F
     /\ "Find" \in CallNames(last.trace)) =>
        LET key  == linkKey(last.linkType, last.field)
            head == <<Call("redis.Get", key), Call("Find", key)>>
        IN
        /\ SubSeq(last.trace, 1, 2) = head
        /\ Count(last.trace, Call("Find", key)) = 1
        /\ ("find" \notin last.F /\ last.find > 0) =>
              /\ Len(last.trace) >= 3
              /\ last.trace[3] = Call("redis.Set", key)
              /\ "lset" \notin last.F =>
                    /\ key \in DOMAIN redis
                    /\ redis[key] = ToString(last.find)
                    /\ Len(last.trace) >= 4
                    /\ last.trace[4] = FirstCallOfFirstById(last.find)
                    /\ \A model \in LinkProbes, find \in FindIds,
                          F \in AnyFault(LinkFaults \ {"lget"}) :
                          LET r == FirstByLink(Here, last.linkType, model,
                                               last.field, find, F)
                              f == FirstById(Here, model, last.find, F)
                          IN  /\ "Find" \notin CallNames(r.trace)
                              /\ r.trace = <<Call("redis.Get", key)>> \o f.trace
                              /\ r.err = f.err /\ r.out = f.out

C8_Witness ==
    /\ last.op = "FirstByLink" /\ last.linkType = "name" /\ last.field = "a"
    /\ last.F = {} /\ last.find = 1 /\ last.err = NoErr
    /\ Call("Find", linkKey("name", "a")) \in {last.trace[i] : i \in DOMAIN last.trace}
    /\ last.out.name = "a"
    /\ redis[linkKey("name", "a")] = "1"

\* C9: a FirstByLink with a registered linkType that finds no link entry and
\* whose finder returns id 0 without error returns nil, leaves the model as
\* it was, writes no link entry and fetches nothing: its only calls are the
\* link read and Find.
C9_NotFoundIsSilent ==
    /\ (/\ last.op = "FirstByLink" /\ last.linkType \in LinkTypes
        /\ "lget" \notin last.F /\ "find" \notin last.F /\ last.find = 0
        /\ "Find" \in CallNames(last.trace)) =>
          LET key == linkKey(last.linkType, last.field) IN
          /\ last.err = NoErr
          /\ last.out = last.in
          /\ key \notin DOMAIN redis
          /\ last.trace = IF last.field = "" THEN <<Call("Find", key)>>
                          ELSE <<Call("redis.Get", key), Call("Find", key)>>
    /\ last.op = "idle" =>
          \A linkType \in LinkTypes, field \in Fields, model \in LinkProbes,
             F \in AnyFault(LinkFaults \ {"lget", "find"}) :
              (field \in ValuesOf(linkType)
                    /\ linkKey(linkType, field) \notin DOMAIN redis) =>
                LET r == FirstByLink(Here, linkType, model, field, 0, F) IN
                  /\ r.err = NoErr /\ r.out = model
                  /\ r.store = store /\ r.redis = redis
                  /\ CallNames(r.trace) \subseteq {"redis.Get", "Find"}
                  /\ Count(r.trace, Call("Find", linkKey(linkType, field))) = 1

C9_Witness ==
    /\ last.op = "FirstByLink" /\ last.linkType = "name" /\ last.field = "a"
    /\ last.F = {} /\ last.find = 0 /\ last.err = NoErr
    /\ Len(last.trace) = 2
    /\ DOMAIN store # {} /\ store[1].name = "a"

Calls == {last.trace[i] : i \in DOMAIN last.trace}

LinkKeysOf(r) == (DOMAIN r) \ PrimaryKeys

\* C12: with cache enabled, after a write of the row with id I that succeeded
\* (no call of it failed and it returned nil), no link entry whose value is I
\* remains in the cache, whatever field values the passed model carries.
\* (Stated on the writes after which the row is still in the store.)
C12_NoLinkToMutatedRecord ==
    (/\ UseCache /\ last.op \in WriteOps /\ last.F = {}
     /\ last.inner = NoErr /\ last.err = NoErr
     /\ last.id \in DOMAIN store) =>
        \A key \in LinkKeysOf(redis) : redis[key] # ToString(last.id)

\* The errors that report a missing parameter of a link operation.
MissingParameter == {ErrGetLinkField, ErrCreateLinkId, ErrCreateLinkField, ErrDelLinkField}

\* C13: FirstByLink or FirstByLinkSD called with a registered linkType and an
\* empty field returns a missing-parameter error and does not call the
\* finder.
C13_EmptyFieldRejected ==
    (last.op \in LinkOps /\ last.linkType \in LinkTypes /\ last.field = "") =>
        /\ last.err \in MissingParameter
        /\ "Find" \notin CallNames(last.trace)

\* The methods that dispatch on UseCache, and Create.
ByIdOps == WriteOps \cup {"Create", "FirstById", "FirstByIdSD"}
CacheCalls == {"redis.Get", "redis.Set", "redis.Del", "json.Unmarshal"}

\* C14: with cache disabled, a call of Create, UpdateById, SaveById,
\* FirstById, FirstByIdSD, DeleteById or SoftDeleteById makes no cache call
\* and leaves every cache entry (primary and link) as it was; a read makes
\* exactly one store query and, when it succeeds, returns the row the store
\* holds.
C14_CacheDisabledTouchesNoCache ==
    [][(~UseCache /\ last.op = "idle" /\ last'.op \in ByIdOps) =>
          /\ redis' = redis
          /\ CallNames(last'.trace) \cap CacheCalls = {}
          /\ last'.op \in {"FirstById", "FirstByIdSD"} =>
                /\ last'.trace = <<Call("db.First", ToString(last'.id))>>
                /\ last'.err = NoErr =>
                      /\ last'.id \in DOMAIN store
                      /\ last'.out = store[last'.id]
                      /\ last'.op = "FirstByIdSD" => ~last'.out.del]_vars

\* With cache disabled, a SoftDeleteById of an existing row, passed a model
\* named "a", has returned and the link entry of "a" is still in the cache.
C14_Witness ==
    /\ ~UseCache /\ last.op = "SoftDeleteById" /\ last.inner = NoErr
    /\ last.in.name = "a" /\ linkKey("name", "a") \in DOMAIN redis
    /\ last.id \in DOMAIN store /\ store[last.id].del

\* The last three calls of a trace.
Tail3(trace) ==
    IF Len(trace) < 3 THEN <<>> ELSE SubSeq(trace, Len(trace) - 2, Len(trace))

\* C15: Create and the four writes never set a primary cache value: they
\* make no redis.Set call, a primary entry present after them was present
\* before with the same value, and Create makes no cache call at all.  A
\* primary entry for id I appears or changes only in a call that ends with
\* the miss path of FirstById(I) or FirstByIdSD(I) (cache read, store query
\* that found the row, cache write), called directly or through a lookup by
\* link, and its value is the row the store holds.
C15_PrimaryEntriesOnlyFromReads ==
    [][/\ (last.op = "idle" /\ last'.op \in WriteOps \cup {"Create"}) =>
            /\ "redis.Set" \notin CallNames(last'.trace)
            /\ \A id \in Ids :
                  cacheKey(id) \in DOMAIN redis' =>
                    /\ cacheKey(id) \in DOMAIN redis
                    /\ redis'[cacheKey(id)] = redis[cacheKey(id)]
            /\ last'.op = "Create" =>
                  /\ CallNames(last'.trace) \cap CacheCalls = {}
                  /\ redis' = redis
       /\ \A id \in Ids :
            (/\ cacheKey(id) \in DOMAIN redis'
             /\ (cacheKey(id) \in DOMAIN redis =>
                    redis'[cacheKey(id)] # redis[cacheKey(id)])) =>
                /\ last.op = "idle"
                /\ last'.op \in {"FirstById", "FirstByIdSD"} \cup LinkOps
                /\ last'.op \in {"FirstById", "FirstByIdSD"} => last'.id = id
                /\ last'.op \in LinkOps =>
                      \/ last'.find = id
                      \/ redis[linkKey(last'.linkType, last'.field)] = ToString(id)
                /\ cacheKey(id) \notin DOMAIN redis
                /\ Tail3(last'.trace) = <<Call("redis.Get", cacheKey(id)),
                                          Call("db.First", ToString(id)),
                                          Call("redis.Set", cacheKey(id))>>
                /\ id \in DOMAIN store
                /\ redis'[cacheKey(id)] = Marshal(store[id])
                /\ last'.err = NoErr /\ last'.out = store[id]]_vars

\* A FirstByIdSD has missed the cache, found the row and created its entry.
C15_Witness ==
    /\ UseCache /\ last.op = "FirstByIdSD" /\ last.err = NoErr
    /\ Len(last.trace) = 3 /\ last.trace[3] = Call("redis.Set", cacheKey(last.id))
    /\ redis[cacheKey(last.id)] = Marshal(last.out)
    /\ last.out.name = "b" /\ last.out.tag = "t"

\* Both overlapping calls have returned.
BothReturned == inflight.reader.pc = "done" /\ inflight.writer.pc = "done"
\* Call a of caller p was made before call b of caller q.
Before(p, a, q, b) ==
    \E i, j \in DOMAIN inflight.log :
        /\ i < j
        /\ inflight.log[i] = [who |-> p, call |-> a]
        /\ inflight.log[j] = [who |-> q, call |-> b]
\* The reader queried the store before the writer wrote it, and set the
\* cache entry after the writer deleted it.
LateSet(id) ==
    /\ Before("reader", Call("db.First", ToString(id)),
              "writer", Call("db.Updates", ToString(id)))
    /\ Before("writer", Call("redis.Del", cacheKey(id)),
              "reader", Call("redis.Set", cacheKey(id)))

\* C16: two callers on the same id with cache enabled, a FirstById and an
\* UpdateById that overlap and do not fail.  Once both have returned, the
\* primary entry disagrees with the store exactly when the reader read the
\* row from the store before the writer wrote it, wrote it to the cache after
\* the writer deleted the entry, and the update changed the row; the entry
\* then holds the pre-update row the reader returned and the store holds the
\* post-update row.  (That this state is reached is C16_Witness.)
C16_StaleEntryByLateSet ==
    BothReturned =>
        LET id  == inflight.writer.id
            pre == inflight.reader.model
        IN
        /\ id \in DOMAIN store
        /\ (Cached(id) /\ redis[cacheKey(id)] # Marshal(store[id]))
              <=> (LateSet(id) /\ store[id] # pre)
        /\ LateSet(id) =>
              /\ Cached(id) /\ redis[cacheKey(id)] = Marshal(pre)
              /\ store[id] = Updates(pre, inflight.writer.model)
              /\ inflight.reader.err = NoErr

\* Both calls have returned nil, the entry holds the row named "a" that the
\* reader returned and the store holds the row renamed to "b".
C16_Witness ==
    /\ BothReturned
    /\ inflight.reader.err = NoErr /\ inflight.writer.err = NoErr
    /\ inflight.writer.model.name = "b"
    /\ inflight.reader.model.name = "a"
    /\ Cached(inflight.reader.id)
    /\ redis[cacheKey(inflight.reader.id)] = Marshal(inflight.reader.model)
    /\ store[inflight.writer.id].name = "b"

\* The store call a write makes.
StoreCallOf(op) ==
    IF op \in {"UpdateById", "SoftDeleteById"} THEN "db.Updates"
    ELSE IF op = "SaveById" THEN "db.Save"
    ELSE "db.Delete"
\* The link deletes a write of this model issues: one for every registered
\* linkType whose field value is not empty.
LinkDeletesOf(model) ==
    {Call("redis.Del", linkKey(linkType, FieldValue(linkType, model))) :
        linkType \in {t \in LinkTypes : FieldValue(t, model) # ""}}

\* C17: with cache enabled, the calls of a write are, in this order: the
\* store write; the primary-entry delete; the link deletes, one per
\* registered linkType (with a non-empty field value), each once; the hook
\* (when the model has it).  When the store write fails no cache delete
\* follows; when the primary-entry delete fails no link delete follows.
C17_WritePathOrder ==
    (UseCache /\ last.op \in WriteOps) =>
        LET steps == IF last.hk = "none" THEN last.trace
                     ELSE SubSeq(last.trace, 1, Len(last.trace) - 1)
            n == Len(steps)
            links == LinkDeletesOf(last.in)
        IN
        /\ n >= 1
        /\ steps[1] = Call(StoreCallOf(last.op), ToString(last.id))
        /\ "store" \in last.F => (n = 1 /\ last.inner = ErrStore)
        /\ "store" \notin last.F =>
              /\ n >= 2
              /\ steps[2] = Call("redis.Del", cacheKey(last.id))
              /\ "del" \in last.F => (n = 2 /\ last.inner = ErrRedis)
              /\ "del" \notin last.F =>
                    /\ n = 2 + Cardinality(links)
                    /\ {steps[i] : i \in 3..n} = links
                    /\ cacheKey(last.id) \notin DOMAIN redis
        /\ last.hk # "none" =>
              last.trace[Len(last.trace)] = Call("hook", HookOf(last.op))

\* An UpdateById of an existing row with both linked columns set and a hook
\* has made its five calls, none of which failed.
C17_Witness ==
    /\ UseCache /\ last.op = "UpdateById" /\ last.hk = "ok" /\ last.F = {}
    /\ last.in.name = "a" /\ last.in.tag = "t"
    /\ last.id \in DOMAIN store /\ store[last.id].name = "a"
    /\ Len(last.trace) = 5
    /\ last.trace[3] = Call("redis.Del", linkKey("tag", "t"))
    /\ last.trace[4] = Call("redis.Del", linkKey("name", "a"))

\* C18: with cache enabled, in a write whose store write and primary-entry
\* delete succeeded, the link delete of every registered linkType with a
\* non-empty field value is issued, whether or not the delete of another
\* linkType failed or was rejected for an empty field value; the entry of
\* every linkType whose delete did not fail is gone when the write returns;
\* and the step reports no error, so that the write returns what the hook
\* alone decides.
C18_LinkInvalidationBestEffort ==
    (/\ UseCache /\ last.op \in WriteOps
     /\ "store" \notin last.F /\ "del" \notin last.F) =>
        /\ LinkDeletesOf(last.in) \subseteq Calls
        /\ \A linkType \in LinkTypes :
              ("ldel:" \o linkType) \notin last.F =>
                  linkKey(linkType, FieldValue(linkType, last.in)) \notin DOMAIN redis
        /\ last.inner = NoErr
        /\ last.err = IF last.hk = "fail" THEN ErrHook ELSE NoErr

\* The link delete of "tag", visited first, failed; the link delete of
\* "name" was still issued, and the write returned nil with the "tag" entry
\* left in the cache.
C18_Witness ==
    /\ UseCache /\ last.op = "UpdateById" /\ last.F = {"ldel:tag"}
    /\ last.in.name = "a" /\ last.in.tag = "t"
    /\ Len(last.trace) = 4
    /\ last.trace[3] = Call("redis.Del", linkKey("tag", "t"))
    /\ last.trace[4] = Call("redis.Del", linkKey("name", "a"))
    /\ linkKey("tag", "t") \in DOMAIN redis
    /\ linkKey("name", "a") \notin DOMAIN redis
    /\ last.err = NoErr

\* C19: with cache enabled, FirstById and FirstByIdSD start with the cache
\* read and query the store exactly when the entry is absent (and the read
\* itself did not fail); a failed cache read or a failed decoding of the
\* entry is returned, the store is not queried and the cache is unchanged; a
\* store query that finds no row returns not-found without any cache write.
C19_OnlyAbsentIsMiss ==
    [][(UseCache /\ last.op = "idle" /\ last'.op \in {"FirstById", "FirstByIdSD"}) =>
          LET id    == last'.id
              key   == cacheKey(id)
              F     == last'.F
              names == CallNames(last'.trace)
              found == /\ id \in DOMAIN store
                       /\ last'.op = "FirstByIdSD" => ~store[id].del
          IN
          /\ last'.trace[1] = Call("redis.Get", key)
          /\ ("db.First" \in names) <=> (key \notin DOMAIN redis /\ "get" \notin F)
          /\ "get" \in F =>
                /\ last'.err = ErrRedis /\ last'.trace = <<Call("redis.Get", key)>>
                /\ redis' = redis /\ last'.out = last'.in
          /\ "json" \in F =>
                /\ key \in DOMAIN redis
                /\ last'.err = ErrJSON /\ redis' = redis
          /\ ("db.First" \in names /\ "store" \notin F /\ ~found) =>
                /\ last'.err = ErrRecordNotFound
                /\ "redis.Set" \notin names
                /\ redis' = redis /\ key \notin DOMAIN redis'
                /\ last'.out = last'.in
          /\ ("db.First" \in names /\ "store" \notin F /\ found) =>
                /\ "redis.Set" \in names
                /\ last'.out = store[id]]_vars

\* A FirstById has returned the decoding error of an entry that is present;
\* its only calls are the cache read and the decoding.
C19_Witness ==
    /\ UseCache /\ last.op = "FirstById" /\ last.F = {"json"}
    /\ last.err = ErrJSON
    /\ last.trace = <<Call("redis.Get", cacheKey(last.id)),
                      Call("json.Unmarshal", cacheKey(last.id))>>
    /\ Cached(last.id) /\ last.id \in DOMAIN store

\* C20: with cache disabled, FirstByLink and FirstByLinkSD with a registered
\* linkType and a non-empty field still start with the read of the link
\* entry; an entry that is present supplies the id and no finder is called;
\* on a miss that Find resolves to an id > 0 the link entry is still
\* written; the record is then fetched from the store alone: no call is made
\* on a primary key and the cache holds no primary entry.
C20_LinkCacheIgnoresUseCache ==
    ~UseCache =>
        /\ PrimaryKeys \cap DOMAIN redis = {}
        /\ (last.op \in LinkOps /\ last.linkType \in LinkTypes /\ last.field # "") =>
              LET key   == linkKey(last.linkType, last.field)
                  names == CallNames(last.trace)
              IN
              /\ last.trace[1] = Call("redis.Get", key)
              /\ \A i \in DOMAIN last.trace : last.trace[i].arg \notin PrimaryKeys
              /\ ("Find" \notin names) =>
                    /\ "lget" \notin last.F
                    /\ key \in DOMAIN redis
                    /\ last.trace = <<Call("redis.Get", key),
                                      Call("db.First", redis[key])>>
              /\ ("Find" \in names /\ "find" \notin last.F /\ last.find > 0) =>
                    /\ Len(last.trace) >= 3
                    /\ last.trace[3] = Call("redis.Set", key)
                    /\ "lset" \notin last.F =>
                          /\ key \in DOMAIN redis
                          /\ redis[key] = ToString(last.find)
                          /\ last.trace = <<Call("redis.Get", key), Call("Find", key),
                                            Call("redis.Set", key),
                                            Call("db.First", ToString(last.find))>>

\* With cache disabled, a FirstByLink has missed the link cache, written the
\* link entry for the id its finder returned and fetched the row from the
\* store.
C20_Witness ==
    /\ ~UseCache /\ last.op = "FirstByLink" /\ last.F = {}
    /\ last.linkType = "tag" /\ last.field = "t" /\ last.find = 1
    /\ Len(last.trace) = 4
    /\ linkKey("tag", "t") \in DOMAIN redis /\ redis[linkKey("tag", "t")] = "1"
    /\ last.err = NoErr
    /\ 1 \in DOMAIN store /\ last.out = store[1] /\ last.out # last.in
====
